---- MODULE Spec2Model ----
(***************************************************************************)
(* Tax validation workflow of src/tax_graph.py: the TaxState value, the    *)
(* merge helper ok, the node functions, the routers, the graph wiring and  *)
(* one run of the compiled graph (run_tax_validation).                     *)
(*                                                                         *)
(* Encoding of Python values                                               *)
(*   Absent            the key is not in the dict                          *)
(*   NoneV             None                                                *)
(*   Str(s), Num(n), Bool(b)   str, number, bool                           *)
(* Money is kept in cents, rates in percent, confidence in hundredths.     *)
(***************************************************************************)
EXTENDS Integers, Sequences, FiniteSets, TLC

\* ---------------------------------------------------------------- bounds
\* Number of supersteps the graph runtime allows one run before it fails
\* the run (the MaxSteps guard of the execution engine).
MaxSteps == 25

\* ---------------------------------------------------------------- values
Absent == [t |-> "absent"]
NoneV == [t |-> "none"]
Str(s) == [t |-> "str", s |-> s]
Num(n) == [t |-> "num", n |-> n]
Bool(b) == [t |-> "bool", b |-> b]

\* Python truthiness of a value read with dict.get (a missing key reads None).
Truthy(v) ==
    CASE v.t = "absent" -> FALSE
      [] v.t = "none" -> FALSE
      [] v.t = "str" -> v.s # ""
      [] v.t = "num" -> v.n # 0
      [] v.t = "bool" -> v.b
      [] OTHER -> TRUE

\* a or b
OrElse(a, b) == IF Truthy(a) THEN a ELSE b

\* d.get(k) on a dict held as a function: a missing key reads None.
Get(d, k) == IF k \in DOMAIN d /\ d[k] # Absent THEN d[k] ELSE NoneV

\* float(v or 0.0), in the unit of v
ToNumber(v) == IF Truthy(v) /\ v.t = "num" THEN v.n ELSE 0

Abs(i) == IF i < 0 THEN -i ELSE i

\* ---------------------------------------------------------------- step ids
START == "__start__"
END == "__end__"
NoStep == "<unset>"

LEGAL == "legal_mandatory_fields"
HITL == "8_failed_controls_hitl"
COMPARISON == "7_invoice_comparison"
POS == "5_place_of_supply"

StepIDs ==
    { "1_reporting_entity", "2_reporting_country", LEGAL,
      "3_taxability_analysis", "3a_product_service_taxability",
      "3b_gl_taxability", "4_supplier_vat_verification", "4a_master_data",
      POS, "5a_reverse_charge_verification", "5b_eu_intracommunity",
      "5c_non_eu_foreign", "6_recoverability_rate_block",
      "6a_vat_rate_verification", "6b_vat_recoverability", COMPARISON, HITL }

\* ---------------------------------------------------------------- payloads
\* A node payload is a bare bool or a dict; a dict is a record whose field
\* kind is "dict" and whose other fields are the dict's keys.
BoolPayload(b) == [kind |-> "bool", val |-> b]

HasPassedKey(p) == p.kind = "dict" /\ "passed" \in DOMAIN p

\* bool(payload) for a payload without a "passed" key: a dict is truthy when
\* it has at least one key.
PayloadTruthy(p) ==
    IF p.kind = "bool" THEN p.val ELSE (DOMAIN p) \ {"kind"} # {}

\* payload.get("passed") if isinstance(payload, dict) and "passed" in payload
\* else bool(payload)
DerivePassed(p) == IF HasPassedKey(p) THEN p.passed ELSE PayloadTruthy(p)

\* results is an insertion-ordered dict: a sequence of <<key, payload>>.
HasKey(results, k) == \E i \in 1..Len(results) : results[i][1] = k

Lookup(results, k) ==
    results[CHOOSE i \in 1..Len(results) : results[i][1] = k][2]

\* {**results, k: payload} and results[k] = payload: an existing key keeps
\* its position and takes the new payload, a new key goes last.
Put(results, k, payload) ==
    IF HasKey(results, k)
    THEN [i \in 1..Len(results) |->
            IF results[i][1] = k THEN <<k, payload>> ELSE results[i]]
    ELSE Append(results, <<k, payload>>)

\* ---------------------------------------------------------------- TaxState
Dict(f) == [t |-> "dict", d |-> f]

TxFields ==
    { "entity_id", "doc_date", "currency", "supplier_id", "net_amount",
      "supplier_tax", "country", "reporting_country", "ship_to_country",
      "supplier_country" }

CtxFields == {"defaults", "rate_table", "tolerance"}

\* The merge helper: record the node's output, derive pass/fail, append the
\* node to the execution path.
okDedup(state, node, payload) ==
    [state EXCEPT !.results = Put(state.results, node, payload),
                  !.last_check_passed = Bool(DerivePassed(payload)),
                  !.path = IF \E i \in 1..Len(state.path) : state.path[i] = node
                           THEN state.path ELSE Append(state.path, node)]

okKeepFirst(state, node, payload) ==
    [state EXCEPT !.results = IF HasKey(state.results, node)
                              THEN state.results
                              ELSE Put(state.results, node, payload),
                  !.last_check_passed = Bool(DerivePassed(payload)),
                  !.path = Append(state.path, node)]

okMarksFailure(state, node, payload) ==
    [state EXCEPT !.results = Put(state.results, node, payload),
                  !.last_check_passed = Bool(DerivePassed(payload)),
                  !.path = Append(state.path, node),
                  !.last_failed_node = IF DerivePassed(payload)
                                       THEN state.last_failed_node ELSE node]

ok(state, node, payload) ==
    [state EXCEPT !.results = Put(state.results, node, payload),
                  !.last_check_passed = Bool(DerivePassed(payload)),
                  !.path = Append(state.path, node)]

\* ---------------------------------------------------------------- nodes
\* Every stub node records the bare payload True under its own id.
StubNodes ==
    { "1_reporting_entity", "2_reporting_country", "3_taxability_analysis",
      "3a_product_service_taxability", "3b_gl_taxability",
      "4_supplier_vat_verification", "4a_master_data",
      "5a_reverse_charge_verification", "5b_eu_intracommunity",
      "5c_non_eu_foreign", "6_recoverability_rate_block",
      "6a_vat_rate_verification", "6b_vat_recoverability" }

node_stub(state, node) == ok(state, node, BoolPayload(TRUE))

required == <<"entity_id", "doc_date", "currency", "supplier_id", "net_amount">>

IsMissing(tx, k) == ~Truthy(Get(tx, k))

LegalPayload(state) ==
    LET missing == SelectSeq(required, LAMBDA k : IsMissing(state.tx, k))
    IN  [kind |-> "dict", passed |-> (Len(missing) = 0), missing |-> missing]

node_legal_and_mandatory_fields(state) == ok(state, LEGAL, LegalPayload(state))

eu ==
    { "AT", "BE", "BG", "HR", "CY", "CZ", "DK", "EE", "FI", "FR", "DE", "GR",
      "HU", "IE", "IT", "LV", "LT", "LU", "MT", "NL", "PL", "PT", "RO", "SK",
      "SI", "ES", "SE" }

InEu(v) == v.t = "str" /\ v.s \in eu

Region(tx) ==
    LET ship_to == Get(tx, "ship_to_country")
        supplier == Get(tx, "supplier_country")
    IN  IF Truthy(ship_to) /\ Truthy(supplier) /\ ship_to = supplier
        THEN "DOMESTIC"
        ELSE IF InEu(ship_to) /\ InEu(supplier) THEN "EU" ELSE "NON_EU"

node_place_of_supply(state) ==
    LET region == Region(state.tx)
    IN  ok([state EXCEPT !.pos_region = Str(region)], POS,
           [kind |-> "dict", region |-> region])

\* ctx.get("rate_table", {"DE": 0.19}), rates in percent
DefaultRateTable == [c \in {"DE"} |-> 19]

\* ctx.get("tolerance", 0.02), in cents
DefaultTolerance == 2

\* The comparison with the score of a match on every outcome.
ComparisonPayloadConfident(state) ==
    LET ctx == state.ctx
        tx == state.tx
        rate_table == IF ctx["rate_table"] = Absent THEN DefaultRateTable
                      ELSE ctx["rate_table"].d
        country == OrElse(Get(tx, "country"), Get(tx, "reporting_country"))
        rate == IF country.t = "str" /\ country.s \in DOMAIN rate_table
                THEN rate_table[country.s] ELSE 0
        net == ToNumber(Get(tx, "net_amount"))
        calc_tax == net * rate
        supplier_tax == ToNumber(Get(tx, "supplier_tax")) * 100
        tolerance == IF ctx["tolerance"] = Absent THEN DefaultTolerance
                     ELSE ctx["tolerance"].n
        mismatch == Abs(calc_tax - supplier_tax) > tolerance
        confidence == 98
    IN  [kind |-> "dict", passed |-> ~mismatch, calc_tax |-> calc_tax,
         supplier_tax |-> supplier_tax, rate |-> rate,
         confidence |-> confidence]

ComparisonPayload(state) ==
    LET ctx == state.ctx
        tx == state.tx
        rate_table == IF ctx["rate_table"] = Absent THEN DefaultRateTable
                      ELSE ctx["rate_table"].d
        country == OrElse(Get(tx, "country"), Get(tx, "reporting_country"))
        rate == IF country.t = "str" /\ country.s \in DOMAIN rate_table
                THEN rate_table[country.s] ELSE 0
        net == ToNumber(Get(tx, "net_amount"))
        calc_tax == net * rate
        supplier_tax == ToNumber(Get(tx, "supplier_tax")) * 100
        tolerance == IF ctx["tolerance"] = Absent THEN DefaultTolerance
                     ELSE ctx["tolerance"].n
        mismatch == Abs(calc_tax - supplier_tax) > tolerance
        confidence == IF ~mismatch THEN 98 ELSE 60
    IN  [kind |-> "dict", passed |-> ~mismatch, calc_tax |-> calc_tax,
         supplier_tax |-> supplier_tax, rate |-> rate,
         confidence |-> confidence]

node_invoice_comparison(state) ==
    LET payload == ComparisonPayload(state)
    IN  ok([state EXCEPT !.confidence = payload.confidence], COMPARISON, payload)

\* ---------------------------------------------------------------- HITL
RemediableKeys == {"doc_date", "currency", "supplier_id", "net_amount"}

BuiltinDefaults(tx) ==
    [k \in {"doc_date", "currency", "supplier_id", "net_amount",
            "supplier_tax", "ship_to_country", "supplier_country"} |->
        CASE k = "doc_date" -> Str("TODAY")
          [] k = "currency" -> Str("EUR")
          [] k = "supplier_id" -> Str("SIM-SUP")
          [] k = "net_amount" -> Num(1000)
          [] k = "supplier_tax" -> Num(190)
          [] OTHER -> OrElse(Get(tx, "country"), Str("DE"))]

\* state.get("ctx", {}).get("defaults", {...built-in...})
Defaults(state) ==
    IF state.ctx["defaults"] = Absent THEN BuiltinDefaults(state.tx)
    ELSE state.ctx["defaults"].d

LastFailIgnoresState(state) == LEGAL

\* state.get("last_failed_node") or "legal_mandatory_fields"
LastFail(state) ==
    IF state.last_failed_node = NoStep THEN LEGAL ELSE state.last_failed_node

\* Variants of the remediation node, one slip each: overwrite fields that
\* hold a value, mark the resumed check as passed, start messages afresh,
\* reset confidence, store the defaults it used in ctx.
HitlVariant(state, slip) ==
    LET tx == state.tx
        defaults == Defaults(state)
        last_fail == LastFail(state)
        fixing == last_fail = LEGAL
        filled == IF fixing
                  THEN IF slip = "overwrite" THEN RemediableKeys
                       ELSE {k \in RemediableKeys : IsMissing(tx, k)}
                  ELSE {}
        changes == [k \in filled |-> Get(defaults, k)]
        newtx == [k \in DOMAIN tx |-> IF k \in filled THEN changes[k] ELSE tx[k]]
        payload == [kind |-> "dict", approved |-> TRUE, comment |-> last_fail,
                    changes |-> changes]
        message == [role |-> "assistant", last_fail |-> last_fail,
                    changes |-> changes]
    IN  [update |->
            [state EXCEPT
               !.tx = newtx,
               !.awaiting_human = Bool(FALSE),
               !.results = Put(state.results, HITL, payload),
               !.messages = IF slip = "restart" THEN <<message>>
                            ELSE Append(state.messages, message),
               !.last_check_passed = IF slip = "approve" THEN Bool(TRUE) ELSE @,
               !.confidence = IF slip = "reset" THEN 0 ELSE @,
               !.ctx = IF slip = "storedefaults"
                       THEN [@ EXCEPT !["defaults"] = Dict(defaults)] ELSE @],
         goto |-> last_fail]

node_failed_controls_overwrites(state) == HitlVariant(state, "overwrite")

node_failed_controls_approves(state) == HitlVariant(state, "approve")

node_failed_controls_restarts_messages(state) == HitlVariant(state, "restart")

node_failed_controls_resets_confidence(state) == HitlVariant(state, "reset")

node_failed_controls_stores_defaults(state) == HitlVariant(state, "storedefaults")

\* The remediation node.  It does not go through ok: it writes its own entry
\* of results in place and leaves path and last_check_passed alone.  Its
\* return value is Command(update = state, goto = last_fail).
node_failed_controls_and_validations(state) ==
    LET tx == state.tx
        defaults == Defaults(state)
        last_fail == LastFail(state)
        fixing == last_fail = LEGAL
        filled == IF fixing THEN {k \in RemediableKeys : IsMissing(tx, k)}
                  ELSE {}
        changes == [k \in filled |-> Get(defaults, k)]
        newtx == [k \in DOMAIN tx |-> IF k \in filled THEN changes[k] ELSE tx[k]]
        payload == [kind |-> "dict", approved |-> TRUE, comment |-> last_fail,
                    changes |-> changes]
        message == [role |-> "assistant", last_fail |-> last_fail,
                    changes |-> changes]
    IN  [update |-> [state EXCEPT !.tx = newtx,
                                  !.awaiting_human = Bool(FALSE),
                                  !.results = Put(state.results, HITL, payload),
                                  !.messages = Append(state.messages, message)],
         goto |-> last_fail]

\* The function the graph registers under each step id.
NodeFn(node, state) ==
    CASE node = LEGAL -> node_legal_and_mandatory_fields(state)
      [] node = POS -> node_place_of_supply(state)
      [] node = COMPARISON -> node_invoice_comparison(state)
      [] OTHER -> node_stub(state, node)

\* ---------------------------------------------------------------- routers
\* path[-1] if path else the last key inserted into results (None if none)
LastKey(state) ==
    IF Len(state.path) > 0 THEN state.path[Len(state.path)]
    ELSE IF Len(state.results) > 0 THEN state.results[Len(state.results)][1]
    ELSE NoStep

\* A router that takes every result for a pass.
RouterPassedAlways(state) == TRUE

\* passed, as the router derives it from results.get(last_key); a missing
\* entry reads None, which is falsy.
RouterPassed(state) ==
    LET last_key == LastKey(state)
    IN  IF HasKey(state.results, last_key)
        THEN DerivePassed(Lookup(state.results, last_key))
        ELSE FALSE

pass_fail_leaves_mark(state) ==
    LET last_key == LastKey(state)
        passed == RouterPassed(state)
    IN  [label |-> IF passed THEN "pass" ELSE "fail",
         state |-> state]

pass_fail_clears(state) ==
    LET last_key == LastKey(state)
        passed == RouterPassed(state)
    IN  [label |-> IF passed THEN "pass" ELSE "fail",
         state |-> [state EXCEPT !.last_failed_node =
                        IF ~passed /\ last_key # NoStep THEN last_key
                        ELSE NoStep]]

\* The router returns its label; its write of last_failed_node is on the
\* state value it was handed, returned here beside the label.
pass_fail(state) ==
    LET last_key == LastKey(state)
        passed == RouterPassed(state)
    IN  [label |-> IF passed THEN "pass" ELSE "fail",
         state |-> IF ~passed /\ last_key # NoStep
                   THEN [state EXCEPT !.last_failed_node = last_key]
                   ELSE state]

\* A router that answers the default label whatever the state holds.
route_pos_default(state) == "DOMESTIC"

\* state.get("pos_region", "DOMESTIC")

route_pos(state) ==
    IF state.pos_region = Absent THEN "DOMESTIC" ELSE state.pos_region.s

\* ---------------------------------------------------------------- wiring
\* The static edges with 3_taxability_analysis wired past 3a.
StaticEdgeSkips3a ==
    [n \in { START, "1_reporting_entity", "3_taxability_analysis",
             "3a_product_service_taxability", "3b_gl_taxability",
             "4a_master_data", "5a_reverse_charge_verification",
             "5b_eu_intracommunity", "5c_non_eu_foreign",
             "6_recoverability_rate_block", "6a_vat_rate_verification",
             "6b_vat_recoverability" } |->
        CASE n = START -> "1_reporting_entity"
          [] n = "1_reporting_entity" -> "2_reporting_country"
          [] n = "3_taxability_analysis" -> "3b_gl_taxability"
          [] n = "3a_product_service_taxability" -> "3b_gl_taxability"
          [] n = "3b_gl_taxability" -> "4_supplier_vat_verification"
          [] n = "4a_master_data" -> POS
          [] n = "6_recoverability_rate_block" -> "6a_vat_rate_verification"
          [] n = "6a_vat_rate_verification" -> "6b_vat_recoverability"
          [] n = "6b_vat_recoverability" -> COMPARISON
          [] OTHER -> "6_recoverability_rate_block"]

StaticEdge ==
    [n \in { START, "1_reporting_entity", "3_taxability_analysis",
             "3a_product_service_taxability", "3b_gl_taxability",
             "4a_master_data", "5a_reverse_charge_verification",
             "5b_eu_intracommunity", "5c_non_eu_foreign",
             "6_recoverability_rate_block", "6a_vat_rate_verification",
             "6b_vat_recoverability" } |->
        CASE n = START -> "1_reporting_entity"
          [] n = "1_reporting_entity" -> "2_reporting_country"
          [] n = "3_taxability_analysis" -> "3a_product_service_taxability"
          [] n = "3a_product_service_taxability" -> "3b_gl_taxability"
          [] n = "3b_gl_taxability" -> "4_supplier_vat_verification"
          [] n = "4a_master_data" -> POS
          [] n = "6_recoverability_rate_block" -> "6a_vat_rate_verification"
          [] n = "6a_vat_rate_verification" -> "6b_vat_recoverability"
          [] n = "6b_vat_recoverability" -> COMPARISON
          [] OTHER -> "6_recoverability_rate_block"]

\* Conditional edges routed by pass_fail: the "pass" target of each gate;
\* the "fail" target is the remediation node at every gate.
PassTarget ==
    [n \in { "2_reporting_country", LEGAL, "4_supplier_vat_verification",
             COMPARISON } |->
        CASE n = "2_reporting_country" -> LEGAL
          [] n = LEGAL -> "3_taxability_analysis"
          [] n = "4_supplier_vat_verification" -> "4a_master_data"
          [] OTHER -> END]

\* The outcome map of a gate with both labels leading onward.
PassFailMapFailOnward(n) == [l \in {"pass", "fail"} |-> PassTarget[n]]

PassFailMap(n) == [l \in {"pass", "fail"} |->
                      IF l = "pass" THEN PassTarget[n] ELSE HITL]

\* The conditional edge of 5_place_of_supply, routed by route_pos.
PosMap ==
    [l \in {"DOMESTIC", "EU", "NON_EU"} |->
        CASE l = "DOMESTIC" -> "5a_reverse_charge_verification"
          [] l = "EU" -> "5b_eu_intracommunity"
          [] OTHER -> "5c_non_eu_foreign"]

\* ---------------------------------------------------------------- main.py
\* main.py defines the graph a second time.  Its ok, stub nodes,
\* node_legal_and_mandatory_fields, node_place_of_supply, pass_fail,
\* route_pos and its edges read as those of tax_graph.py do, so the
\* operators above stand for them; the comparison's built-in rate table and
\* the remediation node differ and are modelled here.

\* ctx.get("rate_table", {"DE": 0.19, "ES": 0.21, "US-TX": 0.0825}), rates
\* in hundredths of a percent
MainDefaultRateTable ==
    [c \in {"DE", "ES", "US-TX"} |->
        CASE c = "DE" -> 1900 [] c = "ES" -> 2100 [] OTHER -> 825]

\* round(net * rate, 2) in cents, from net times a rate in hundredths of a
\* percent
RoundToCents(x) == (x + 50) \div 100

main_ComparisonPayload(state) ==
    LET ctx == state.ctx
        tx == state.tx
        rate_table == IF ctx["rate_table"] = Absent THEN MainDefaultRateTable
                      ELSE [c \in DOMAIN ctx["rate_table"].d |->
                              100 * ctx["rate_table"].d[c]]
        country == OrElse(Get(tx, "country"), Get(tx, "reporting_country"))
        rate == IF country.t = "str" /\ country.s \in DOMAIN rate_table
                THEN rate_table[country.s] ELSE 0
        net == ToNumber(Get(tx, "net_amount"))
        calc_tax == RoundToCents(net * rate)
        supplier_tax == ToNumber(Get(tx, "supplier_tax")) * 100
        tolerance == IF ctx["tolerance"] = Absent THEN DefaultTolerance
                     ELSE ctx["tolerance"].n
        mismatch == Abs(calc_tax - supplier_tax) > tolerance
        confidence == IF ~mismatch THEN 98 ELSE 60
    IN  [kind |-> "dict", passed |-> ~mismatch, calc_tax |-> calc_tax,
         supplier_tax |-> supplier_tax, rate |-> rate,
         confidence |-> confidence]

main_node_invoice_comparison(state) ==
    LET payload == main_ComparisonPayload(state)
    IN  ok([state EXCEPT !.confidence = payload.confidence], COMPARISON, payload)

\* The built-in defaults of main.py's remediation node.
MainBuiltinDefaults(tx) ==
    [k \in {"doc_date", "currency", "supplier_id", "net_amount",
            "supplier_tax", "ship_to_country", "supplier_country"} |->
        CASE k = "doc_date" -> Str("2025-10-13")
          [] k = "currency" -> Str("EUR")
          [] k = "supplier_id" -> Str("SIM-SUP")
          [] k = "net_amount" -> Num(1000)
          [] k = "supplier_tax" -> Num(190)
          [] OTHER -> OrElse(Get(tx, "country"), Str("DE"))]

MainDefaults(state) ==
    IF state.ctx["defaults"] = Absent THEN MainBuiltinDefaults(state.tx)
    ELSE state.ctx["defaults"].d

\* main.py's remediation node: tx.setdefault(k, defaults.get(k)) writes a
\* field only when tx has no such key; the node records no changes and
\* appends no message.
main_node_failed_controls_and_validations(state) ==
    LET tx == state.tx
        defaults == MainDefaults(state)
        last_fail == LastFail(state)
        filled == IF last_fail = LEGAL
                  THEN {k \in RemediableKeys : tx[k] = Absent}
                  ELSE {}
        newtx == [k \in DOMAIN tx |->
                    IF k \in filled THEN Get(defaults, k) ELSE tx[k]]
        payload == [kind |-> "dict", approved |-> TRUE, comment |-> last_fail]
    IN  [update |-> [state EXCEPT !.tx = newtx,
                                  !.awaiting_human = Bool(FALSE),
                                  !.results = Put(state.results, HITL, payload)],
         goto |-> last_fail]

MainNodeFn(node, state) ==
    CASE node = LEGAL -> node_legal_and_mandatory_fields(state)
      [] node = POS -> node_place_of_supply(state)
      [] node = COMPARISON -> main_node_invoice_comparison(state)
      [] OTHER -> node_stub(state, node)

\* ---------------------------------------------------------------- inputs
TxInputs ==
    { [k \in TxFields |->
         CASE k = "entity_id" -> e
           [] k = "doc_date" -> d
           [] k = "currency" -> c
           [] k = "supplier_id" -> s
           [] k = "net_amount" -> n
           [] k = "supplier_tax" -> t
           [] k = "country" -> g[1]
           [] k = "ship_to_country" -> g[2]
           [] k = "supplier_country" -> g[3]
           [] OTHER -> Absent] :
        e \in {Absent, Str("DE01")},
        d \in {Absent, NoneV, Str("2025-10-13")},
        c \in {Absent, Str("EUR")},
        s \in {Absent, Str("S1")},
        n \in {Absent, Num(0), Num(1000)},
        t \in {Absent, Num(190)},
        g \in { <<Str("DE"), Str("DE"), Str("DE")>>,
                <<Str("DE"), Str("FR"), Str("DE")>>,
                <<Absent, Absent, Str("US")>> } }

\* ctx.defaults as the callers of the graph supply it: none, every
\* remediable field, only the amounts, or an empty dict.
DefaultsInputs ==
    { Absent,
      Dict([k \in {"doc_date", "currency", "supplier_id", "net_amount",
                   "supplier_tax"} |->
              CASE k = "doc_date" -> Str("2025-10-13")
                [] k = "currency" -> Str("EUR")
                [] k = "supplier_id" -> Str("SIM-SUP")
                [] k = "net_amount" -> Num(1000)
                [] OTHER -> Num(190)]),
      Dict([k \in {"net_amount", "supplier_tax"} |->
              IF k = "net_amount" THEN Num(1000) ELSE Num(190)]),
      Dict(<< >>) }

\* A caller that passes ctx.defaults also passes rate_table and tolerance;
\* without defaults the ctx is empty or holds rate_table and tolerance only.
CtxInputs ==
    LET all == { [k \in CtxFields |->
                    CASE k = "defaults" -> d
                      [] k = "rate_table" -> r[1]
                      [] OTHER -> r[2]] :
                   d \in DefaultsInputs,
                   r \in { <<Absent, Absent>>,
                           <<Dict([c \in {"DE"} |-> 19]), Num(1)>> } }
    IN  {ctx \in all : ctx["defaults"] = Absent \/ ctx["rate_table"] # Absent}

\* ---------------------------------------------------------------- one run
VARIABLES
    state,            \* the TaxState of the run
    current,          \* the step the runtime is at (START, a step id or END)
    phase,            \* "edge": current has run, its outgoing edge is next
                      \* "node": current is about to be invoked
                      \* "done", "error": the run is over
    invoked,          \* node invocations (supersteps) performed so far
    error,            \* the error that ended the run, "" if none
    report,           \* the dict run_tax_validation returns, Absent before
    routerWritesKept, \* whether the runtime merges what a router wrote on the
                      \* state it was handed back into the run's state
    caller,           \* the tx and ctx dicts of the caller; init stores
                      \* references to them, so state["tx"] and state["ctx"]
                      \* are these same objects
    hist,             \* history of the run, read by the properties only
    twin              \* the run of main.py's graph on the same subject and
                      \* context: its state, position, step count, error,
                      \* the steps it invoked and tx after each remediation

vars ==
    <<state, current, phase, invoked, error, report, routerWritesKept, caller,
      hist, twin>>

NoPayload == [kind |-> "none"]

\* init of run_tax_validation: ctx = ctx or {}; last_check_passed,
\* pos_region and last_failed_node are not in the initial dict.
InitState(tx, ctx) ==
    [tx |-> tx, ctx |-> ctx, results |-> << >>, confidence |-> 0,
     awaiting_human |-> Bool(FALSE), path |-> << >>, messages |-> << >>,
     last_check_passed |-> Absent, pos_region |-> Absent,
     last_failed_node |-> NoStep]

InitHist(tx, ctx) ==
    [ subject |-> tx,            \* the tx the caller supplied
      context |-> ctx,           \* the ctx the caller supplied
      lastLabel |-> "none",      \* what the last pass_fail evaluation returned
      routed |-> NoStep,         \* the step whose edge it was resolving
      payload |-> [n \in StepIDs |-> NoPayload],
                                 \* payload each step computed when last invoked
      calls |-> << >>,           \* every step invoked, in order
      resumeAt |-> NoStep,       \* target of the last remediation
      failedAtStart |-> NoStep,  \* last_failed_node when it started
      returned |-> Absent,       \* the state it returned
      resuming |-> FALSE,        \* remediation has run, its target not yet
      fixes |-> << >>,           \* tx as each remediation left it
      via |-> "none" ]           \* how current was reached: static, conditional,
                                 \* goto

\* The initial state main.py invokes its graph with (it has no messages;
\* the field stays empty), and the books kept on that run.
MainInit(tx, ctx) ==
    [ state |-> InitState(tx, ctx), current |-> START, phase |-> "edge",
      invoked |-> 0, error |-> "", calls |-> << >>, fixes |-> << >> ]

Init ==
    /\ \E tx \in TxInputs, ctx \in CtxInputs :
          /\ state = InitState(tx, ctx)
          /\ caller = [tx |-> tx, ctx |-> ctx]
          /\ hist = InitHist(tx, ctx)
          /\ twin = MainInit(tx, ctx)
    /\ current = START
    /\ phase = "edge"
    /\ invoked = 0
    /\ error = ""
    /\ report = Absent
    /\ routerWritesKept \in BOOLEAN

GuardOpen == TRUE

\* The runtime's bound on the supersteps of one run.

WithinLimit == invoked < MaxSteps

\* An ordinary step runs: the registered function is applied to the state
\* and its return value becomes the state.
InvokeStep ==
    /\ phase = "node"
    /\ current \in StepIDs \ {HITL}
    /\ WithinLimit
    /\ state' = NodeFn(current, state)
    /\ invoked' = invoked + 1
    /\ phase' = "edge"
    /\ hist' = [hist EXCEPT
                  !.payload[current] =
                      CASE current = LEGAL -> LegalPayload(state)
                        [] current = POS -> [kind |-> "dict", region |-> Region(state.tx)]
                        [] current = COMPARISON -> ComparisonPayload(state)
                        [] OTHER -> BoolPayload(TRUE),
                  !.calls = Append(@, current),
                  !.resuming = FALSE]
    /\ UNCHANGED <<current, error, report, routerWritesKept, caller, twin>>

\* tx[k] = defaults.get(k) writes the dict state["tx"] refers to, which is
\* the caller's tx; nothing writes the dict state["ctx"] refers to unless
\* the node's update carries another ctx.
WrittenInPlace(update) == [tx |-> update.tx, ctx |-> update.ctx]

\* The remediation step runs and returns a Command: its update becomes the
\* state and its goto names the next step; no edge is resolved.
InvokeRemediation ==
    /\ phase = "node"
    /\ current = HITL
    /\ WithinLimit
    /\ LET cmd == node_failed_controls_and_validations(state)
       IN  /\ state' = cmd.update
           /\ caller' = WrittenInPlace(cmd.update)
           /\ current' = cmd.goto
           /\ hist' = [hist EXCEPT
                         !.payload[HITL] = Lookup(cmd.update.results, HITL),
                         !.calls = Append(@, HITL),
                         !.resumeAt = cmd.goto,
                         !.failedAtStart = state.last_failed_node,
                         !.returned = cmd.update,
                         !.resuming = TRUE,
                         !.fixes = Append(@, cmd.update.tx),
                         !.via = "goto"]
    /\ invoked' = invoked + 1
    /\ phase' = "node"
    /\ UNCHANGED <<error, report, routerWritesKept, twin>>

FollowStaticEdge ==
    /\ phase = "edge"
    /\ current \in DOMAIN StaticEdge
    /\ current' = StaticEdge[current]
    /\ phase' = "node"
    /\ hist' = [hist EXCEPT !.via = "static"]
    /\ UNCHANGED <<state, invoked, error, report, routerWritesKept, caller, twin>>

\* The run's state once a router has returned: with the router's write of
\* last_failed_node, or as the step left it.  The runtime that calls the
\* router is not part of the repository; both outcomes are kept.
StateAfterRouter(r) == IF routerWritesKept THEN r.state ELSE state

\* A gate's conditional edge: pass_fail is evaluated on the state the step
\* left and its label selects the successor.
RoutePassFail ==
    /\ phase = "edge"
    /\ current \in DOMAIN PassTarget
    /\ LET r == pass_fail(state)
       IN  /\ r.label \in DOMAIN PassFailMap(current)
           /\ current' = PassFailMap(current)[r.label]
           /\ state' = StateAfterRouter(r)
           /\ hist' = [hist EXCEPT !.lastLabel = r.label,
                                   !.routed = current,
                                   !.via = "conditional"]
    /\ phase' = "node"
    /\ UNCHANGED <<invoked, error, report, routerWritesKept, caller, twin>>

RoutePlaceOfSupply ==
    /\ phase = "edge"
    /\ current = POS
    /\ route_pos(state) \in DOMAIN PosMap
    /\ current' = PosMap[route_pos(state)]
    /\ phase' = "node"
    /\ hist' = [hist EXCEPT !.via = "conditional"]
    /\ UNCHANGED <<state, invoked, error, report, routerWritesKept, caller, twin>>

\* run_tax_validation builds its report from the final state.
Report(final) ==
    LET res(k) == IF HasKey(final.results, k) THEN Lookup(final.results, k)
                  ELSE [kind |-> "dict"]
        inv == res(COMPARISON)
        legal == res(LEGAL)
        pos == res(POS)
    IN  [ passed |-> IF "passed" \in DOMAIN inv THEN inv.passed ELSE FALSE,
          confidence |-> final.confidence,
          missing_fields |-> IF "missing" \in DOMAIN legal THEN legal.missing
                             ELSE << >>,
          pos_region |-> IF "region" \in DOMAIN pos THEN Str(pos.region)
                         ELSE NoneV,
          path |-> final.path,
          agent_messages |-> final.messages,
          results |-> final.results ]

Finish ==
    /\ phase = "node"
    /\ current = END
    /\ phase' = "done"
    /\ report' = Report(state)
    /\ UNCHANGED <<state, current, invoked, error, routerWritesKept, caller, hist, twin>>

\* A further step is due after the last allowed superstep: the run fails.
ExceedLimit ==
    /\ phase = "node"
    /\ current \in StepIDs
    /\ ~WithinLimit
    /\ phase' = "error"
    /\ error' = "CycleExceededError"
    /\ UNCHANGED <<state, current, invoked, report, routerWritesKept, caller, hist, twin>>

Next ==
    \/ InvokeStep
    \/ InvokeRemediation
    \/ FollowStaticEdge
    \/ RoutePassFail
    \/ RoutePlaceOfSupply
    \/ Finish
    \/ ExceedLimit

Spec == Init /\ [][Next]_vars

\* The runtime keeps stepping until the run is over.  Progress is checked
\* on the runs whose three text fields are missing together or not at all.
LiveInit ==
    /\ Init
    /\ IsMissing(state.tx, "currency") = IsMissing(state.tx, "doc_date")
    /\ IsMissing(state.tx, "supplier_id") = IsMissing(state.tx, "doc_date")

FairSpec == LiveInit /\ [][Next]_vars /\ WF_vars(Next)

Terminal == phase \in {"done", "error"}

\* ---------------------------------------------------------------- helpers
Last(seq) == seq[Len(seq)]

Count(seq, x) == Cardinality({i \in 1..Len(seq) : seq[i] = x})

IsPrefix(a, b) == Len(a) <= Len(b) /\ \A i \in 1..Len(a) : a[i] = b[i]

\* Payloads and step ids the merge helper and the router are tried on, in
\* every state of a run: bare booleans, a dict without a "passed" key and
\* dicts carrying one.
SamplePayloads ==
    { BoolPayload(TRUE), BoolPayload(FALSE),
      [kind |-> "dict", region |-> "EU"],
      [kind |-> "dict", passed |-> TRUE, missing |-> << >>],
      [kind |-> "dict", passed |-> FALSE, missing |-> <<"currency">>] }

SampleSteps == {"1_reporting_entity", COMPARISON}

\* The fields of the caller's tx that remediation can fill and that are
\* missing from it.
MissingAtStart == {k \in RemediableKeys : IsMissing(hist.subject, k)}

\* ---------------------------------------------------------------- C1
\* C1: every run terminates: it reaches END or fails with
\* CycleExceededError after at most MaxSteps step invocations; a run whose
\* last gate evaluation failed never counts as finished, so a gate that
\* fails on every evaluation and is resumed unchanged ends in
\* CycleExceededError.
C1_RunTerminates ==
    /\ [](invoked <= MaxSteps)
    /\ [](phase = "error" => error = "CycleExceededError" /\ invoked = MaxSteps)
    /\ [](phase = "done" => hist.lastLabel = "pass" /\ error = "")
    /\ <>Terminal

\* A run in which the same gate failed again after remediation resumed it and
\* which ended in CycleExceededError.
C1_Witness ==
    /\ phase = "error"
    /\ error = "CycleExceededError"
    /\ hist.lastLabel = "fail"
    /\ Count(hist.calls, HITL) >= 2
    /\ hist.resumeAt = hist.routed

\* ---------------------------------------------------------------- C2
\* C2: for a subject that has entity_id and lacks some of doc_date,
\* currency, supplier_id, net_amount, under every context, the first
\* evaluation of legal_mandatory_fields fails, remediation fills every
\* missing field, the second evaluation passes, and the finished run's path
\* holds legal_mandatory_fields exactly twice.
C2_RemediationConverges ==
    (~IsMissing(hist.subject, "entity_id") /\ MissingAtStart # {}) =>
        /\ (Count(hist.calls, LEGAL) = 1 /\ Last(hist.calls) = LEGAL) =>
              ~Lookup(state.results, LEGAL).passed
        /\ Count(hist.calls, HITL) >= 1 =>
              \A k \in RemediableKeys : ~IsMissing(state.tx, k)
        /\ (Count(hist.calls, LEGAL) = 2 /\ Last(hist.calls) = LEGAL) =>
              Lookup(state.results, LEGAL).passed
        /\ Terminal => Count(state.path, LEGAL) = 2

\* ---------------------------------------------------------------- C3
\* C3: once remediation has resumed step X and X has run again, the
\* remediation step's id is in path and X occurs in path after it.
C3_LoopBackLaw ==
    (hist.resumeAt # NoStep /\ ~hist.resuming) =>
        \E i, j \in 1..Len(state.path) :
            /\ i < j
            /\ state.path[i] = HITL
            /\ state.path[j] = hist.resumeAt

\* ---------------------------------------------------------------- C4
\* C4: the length of path equals the number of step invocations performed
\* so far, the remediation step included, and path only grows by appending.
C4_TrailCountsInvocations ==
    [][/\ Len(state'.path) = invoked'
       /\ IsPrefix(state.path, state'.path)]_vars

\* ---------------------------------------------------------------- C5
\* C5: after the first step invocation path is non-empty and results has an
\* entry for every step id in path; the entry is the payload the step
\* computed when it was last invoked, so once the field check has run on a
\* complete subject its entry reports passed = true and nothing missing.
C5_OutcomesCoverTrail ==
    invoked >= 1 =>
        /\ Len(state.path) >= 1
        /\ HasKey(state.results, Last(state.path))
        /\ \A i \in 1..Len(state.path) :
              /\ HasKey(state.results, state.path[i])
              /\ Lookup(state.results, state.path[i]) = hist.payload[state.path[i]]
        /\ (phase = "edge" /\ current = LEGAL) =>
              LET legal == Lookup(state.results, LEGAL)
              IN  /\ legal.passed = (\A i \in 1..Len(required) :
                                        ~IsMissing(state.tx, required[i]))
                  /\ legal.passed = (legal.missing = << >>)

\* The field check has run twice, failing first and passing after
\* remediation.
C5_Witness ==
    /\ Count(state.path, LEGAL) = 2
    /\ Count(hist.calls, HITL) = 1
    /\ Last(state.path) = LEGAL
    /\ Lookup(state.results, LEGAL).passed
    /\ Lookup(state.results, LEGAL).missing = << >>

\* ---------------------------------------------------------------- C6
\* The runs in which the router's write of last_failed_node reaches the
\* run's state.
InitKept == Init /\ routerWritesKept

SpecKept == InitKept /\ [][Next]_vars

\* C6: last_failed_node is set if and only if the step named by path[-1]
\* failed when pass_fail last evaluated it: unset wherever the most recent
\* evaluation returned "pass", equal to path[-1] wherever it returned "fail".
C6_LastFailedIffFailed ==
    /\ hist.lastLabel = "pass" => state.last_failed_node = NoStep
    /\ hist.lastLabel = "fail" => state.last_failed_node = Last(state.path)

\* ---------------------------------------------------------------- C7
\* C7: the step reached from the remediation step is the value
\* last_failed_node had when remediation started, or legal_mandatory_fields
\* when it was unset; it is reached by the Command's goto, not through an
\* edge, and the resumed step is handed the state remediation returned.
C7_ExplicitRedirect ==
    LET expected == IF hist.failedAtStart = NoStep THEN LEGAL
                    ELSE hist.failedAtStart
        h == CHOOSE i \in 1..Len(hist.calls) :
                /\ hist.calls[i] = HITL
                /\ \A j \in (i + 1)..Len(hist.calls) : hist.calls[j] # HITL
    IN  /\ hist.resuming =>
              /\ phase \in {"node", "error"}
              /\ current = expected
              /\ hist.via = "goto"
              /\ state = hist.returned
        /\ (Count(hist.calls, HITL) >= 1 /\ ~hist.resuming) =>
              hist.calls[h + 1] = expected

\* Remediation has just returned and the run is about to resume the step it
\* named.
C7_Witness ==
    /\ hist.resuming
    /\ phase = "node"
    /\ current = hist.resumeAt
    /\ current = (IF hist.failedAtStart = NoStep THEN LEGAL
                  ELSE hist.failedAtStart)
    /\ Len(state.messages) >= 1

\* ---------------------------------------------------------------- C8
\* passed, as the claim derives it from results[path[-1]]
ClaimedPassed(s) ==
    LET entry == Lookup(s.results, Last(s.path))
    IN  IF entry.kind = "dict" /\ "passed" \in DOMAIN entry THEN entry.passed
        ELSE IF entry.kind = "bool" THEN entry.val
        ELSE TRUE

RouterContract(s) ==
    LET r == pass_fail(s)
    IN  /\ r.label \in {"pass", "fail"}
        /\ r.label = (IF ClaimedPassed(s) THEN "pass" ELSE "fail")
        /\ ~ClaimedPassed(s) => r.state.last_failed_node = Last(s.path)
        /\ ClaimedPassed(s) => r.state.last_failed_node = s.last_failed_node
        /\ [r.state EXCEPT !.last_failed_node = s.last_failed_node] = s

\* C8: on a state with a non-empty path, pass_fail derives passed from
\* results[path[-1]] (its "passed" field when it is a dict carrying one,
\* else its truthiness), returns "fail" and writes last_failed_node =
\* path[-1] when passed is false, returns "pass" and leaves last_failed_node
\* alone when it is true; it returns no other label and writes no other
\* field.  Checked on every state of a run and on every such state after one
\* more recorded outcome.
C8_PassFailRouter ==
    /\ Len(state.path) > 0 => RouterContract(state)
    /\ \A id \in SampleSteps, p \in SamplePayloads :
          RouterContract(ok(state, id, p))
    /\ (phase = "node" /\ hist.via = "conditional"
          /\ hist.routed = Last(state.path)) =>
          hist.lastLabel = (IF ClaimedPassed(state) THEN "pass" ELSE "fail")

\* The router has just evaluated a failed gate and sent the run to
\* remediation.
C8_Witness ==
    /\ phase = "node"
    /\ hist.via = "conditional"
    /\ hist.lastLabel = "fail"
    /\ current = HITL
    /\ hist.routed = Last(state.path)
    /\ pass_fail(state).state.last_failed_node = Last(state.path)

\* ---------------------------------------------------------------- C9
\* C9: applying ok twice with the same id and payload yields the same
\* results[id] and the same last_check_passed as applying it once, and each
\* application appends exactly one entry, the id, to path.
C9_MergeIdempotent ==
    \A id \in SampleSteps, p \in SamplePayloads :
        LET s1 == ok(state, id, p)
            s2 == ok(s1, id, p)
        IN  /\ Lookup(s1.results, id) = p
            /\ Lookup(s2.results, id) = Lookup(s1.results, id)
            /\ s2.last_check_passed = s1.last_check_passed
            /\ s1.path = Append(state.path, id)
            /\ s2.path = Append(s1.path, id)

\* The field check has been recorded twice in a row with the same payload
\* (remediation had nothing to fill).
C9_Witness ==
    /\ phase = "edge"
    /\ current = LEGAL
    /\ Count(state.path, LEGAL) = 2
    /\ Len(state.path) >= 2
    /\ state.path[Len(state.path) - 1] = LEGAL
    /\ Len(state.messages) = 1
    /\ DOMAIN state.messages[1].changes = {}
    /\ ~Lookup(state.results, LEGAL).passed

\* ---------------------------------------------------------------- C10
\* C10: ok never changes last_failed_node, whatever the payload, and in a
\* run last_failed_node changes only in an evaluation of pass_fail.
C10_OnlyRouterMarksFailure ==
    /\ [](\A id \in SampleSteps, p \in SamplePayloads :
            ok(state, id, p).last_failed_node = state.last_failed_node)
    /\ [][state'.last_failed_node # state.last_failed_node => RoutePassFail]_vars

\* A step has recorded a failing payload and last_failed_node is still as it
\* was before the step ran.
C10_Witness ==
    /\ phase = "edge"
    /\ current = LEGAL
    /\ ~Lookup(state.results, LEGAL).passed
    /\ state.last_check_passed = Bool(FALSE)
    /\ state.last_failed_node = NoStep

\* ---------------------------------------------------------------- C11
\* What one remediation changed in tx, as recorded under its own id.
LastChanges(s) == Lookup(s.results, HITL).changes

\* C11: remediation changes tx only when last_failed_node is
\* legal_mandatory_fields or unset, and then only fields among doc_date,
\* currency, supplier_id, net_amount that the field check counts as missing;
\* a field that holds a value keeps it; when last_failed_node names any other
\* step tx is left as it is and the recorded changes are empty.  The second
\* half is also tried on every state of a run with last_failed_node put to
\* another gate.
C11_RemediationFrame ==
    /\ [][InvokeRemediation =>
            /\ \A k \in TxFields :
                  state'.tx[k] # state.tx[k] =>
                      /\ state.last_failed_node \in {NoStep, LEGAL}
                      /\ k \in RemediableKeys
                      /\ IsMissing(state.tx, k)
            /\ \A k \in TxFields :
                  ~IsMissing(state.tx, k) => state'.tx[k] = state.tx[k]
            /\ {k \in TxFields : state'.tx[k] # state.tx[k]}
                  \subseteq DOMAIN LastChanges(state')
            /\ state.last_failed_node \notin {NoStep, LEGAL} =>
                  /\ state'.tx = state.tx
                  /\ DOMAIN LastChanges(state') = {}]_vars
    /\ [](\A other \in {COMPARISON, "4_supplier_vat_verification"} :
            LET s == [state EXCEPT !.last_failed_node = other]
                cmd == node_failed_controls_and_validations(s)
            IN  /\ cmd.update.tx = state.tx
                /\ DOMAIN LastChanges(cmd.update) = {}
                /\ cmd.goto = other)

\* Remediation has filled a missing field of a subject and left the fields
\* that held a value as they were.
C11_Witness ==
    /\ hist.resuming
    /\ hist.resumeAt = LEGAL
    /\ ~IsMissing(hist.subject, "doc_date")
    /\ IsMissing(hist.subject, "currency")
    /\ state.tx["doc_date"] = hist.subject["doc_date"]
    /\ ~IsMissing(state.tx, "currency")
    /\ DOMAIN LastChanges(state) # {}

\* ---------------------------------------------------------------- C12
\* C12: an invocation of remediation leaves last_check_passed, confidence
\* and the results entry of the step it resumes as they were, and the label
\* that routes the run after the resumed step has run again is derived from
\* the payload that step computed in that latest invocation.
C12_RemediationNeverDecides ==
    /\ [][InvokeRemediation =>
            /\ state'.last_check_passed = state.last_check_passed
            /\ state'.confidence = state.confidence
            /\ HasKey(state'.results, current') = HasKey(state.results, current')
            /\ HasKey(state.results, current') =>
                  Lookup(state'.results, current') =
                      Lookup(state.results, current')]_vars
    /\ []((phase = "node" /\ hist.via = "conditional"
             /\ hist.routed = Last(state.path)) =>
            hist.lastLabel = (IF DerivePassed(hist.payload[hist.routed])
                              THEN "pass" ELSE "fail"))

\* Remediation has returned after a failed comparison: the last check still
\* counts as failed, confidence is still 0.6 and the step about to be resumed
\* still has the entry it had.
C12_Witness ==
    /\ hist.resuming
    /\ phase = "node"
    /\ state.last_check_passed = Bool(FALSE)
    /\ state.confidence = 60
    /\ HasKey(state.results, current)
    /\ Lookup(state.results, current) = hist.payload[current]

\* ---------------------------------------------------------------- C14
\* C14: a run leaves the caller's objects alone: in every state of a run the
\* subject and the context the caller handed to run_tax_validation still
\* hold the values they held when the run started, so that a second run
\* given the same objects (or the caller itself) reads what it supplied.
C14_CallerObjectsUntouched ==
    /\ caller.tx = hist.subject
    /\ caller.ctx = hist.context

\* ---------------------------------------------------------------- C15
\* The tax the subject's amounts call for, against the tax on the invoice:
\* net_amount times the rate of the subject's country in the context's rate
\* table (the table of DE at 19% when the context has none, rate 0 for a
\* country the table lacks), within the context's tolerance (0.02 when it
\* has none) of supplier_tax.
TaxWithinTolerance(tx, ctx) ==
    LET table == IF ctx["rate_table"] = Absent THEN [c \in {"DE"} |-> 19]
                 ELSE ctx["rate_table"].d
        c == IF Truthy(Get(tx, "country")) THEN Get(tx, "country")
             ELSE Get(tx, "reporting_country")
        rate == IF c.t = "str" /\ c.s \in DOMAIN table THEN table[c.s] ELSE 0
        tol == IF ctx["tolerance"] = Absent THEN 2 ELSE ctx["tolerance"].n
    IN  Abs(ToNumber(Get(tx, "net_amount")) * rate
              - 100 * ToNumber(Get(tx, "supplier_tax"))) <= tol

HappySubject ==
    /\ \A i \in 1..Len(required) : ~IsMissing(hist.subject, required[i])
    /\ TaxWithinTolerance(hist.subject, hist.context)

HappyTrail(region_step) ==
    << "1_reporting_entity", "2_reporting_country", LEGAL,
       "3_taxability_analysis", "3a_product_service_taxability",
       "3b_gl_taxability", "4_supplier_vat_verification", "4a_master_data",
       POS, region_step, "6_recoverability_rate_block",
       "6a_vat_rate_verification", "6b_vat_recoverability", COMPARISON >>

\* C15: for every subject that has the five mandatory fields and whose
\* computed tax is within tolerance of supplier_tax, the run reaches END
\* with no error; the remediation step is never invoked; the steps invoked
\* are, in this order and once each, 1, 2, legal_mandatory_fields, 3, 3a,
\* 3b, 4, 4a, 5, one of 5a/5b/5c, 6, 6a, 6b, 7, and path lists exactly them;
\* the report has passed = true, confidence 0.98 and no missing fields.
C15_HappyPath ==
    /\ [](HappySubject =>
            /\ Count(hist.calls, HITL) = 0
            /\ error = ""
            /\ state.path = hist.calls
            /\ \E r \in {"5a_reverse_charge_verification", "5b_eu_intracommunity",
                          "5c_non_eu_foreign"} :
                  /\ IsPrefix(hist.calls, HappyTrail(r))
                  /\ phase = "done" => report.path = HappyTrail(r)
            /\ phase = "done" =>
                  /\ report.passed
                  /\ report.confidence = 98
                  /\ report.missing_fields = << >>)
    /\ (HappySubject => <>(phase = "done"))

\* A happy run that finished, here one routed through 5c_non_eu_foreign.
C15_Witness ==
    /\ HappySubject
    /\ phase = "done"
    /\ report.passed
    /\ Len(report.path) = 14
    /\ report.path[10] = "5c_non_eu_foreign"

\* ---------------------------------------------------------------- C16
\* The comparison gate was the last step invoked and reported a mismatch.
MismatchReported ==
    /\ Len(hist.calls) > 0
    /\ Last(hist.calls) = COMPARISON
    /\ ~hist.payload[COMPARISON].passed

\* C16: whenever 7_invoice_comparison reports passed = false, it sets
\* confidence to 0.6; pass_fail, evaluated on the state it returned, answers
\* "fail" and writes last_failed_node = 7_invoice_comparison into the state
\* it was given (the run's state holds that value wherever the runtime keeps
\* the router's write); the edge leads to the remediation step, which is the
\* next step invoked; and the run ends afterwards, at END or with an error.
C16_RateMismatchPath ==
    /\ [][(InvokeStep /\ current = COMPARISON /\ ~ComparisonPayload(state).passed) =>
            /\ state'.confidence = 60
            /\ Lookup(state'.results, COMPARISON).confidence = 60
            /\ pass_fail(state').label = "fail"
            /\ pass_fail(state').state.last_failed_node = COMPARISON]_vars
    /\ [][(RoutePassFail /\ MismatchReported) =>
            /\ current' = HITL
            /\ routerWritesKept => state'.last_failed_node = COMPARISON]_vars
    /\ [][(MismatchReported /\ hist'.calls # hist.calls) =>
            Last(hist'.calls) = HITL]_vars
    /\ (MismatchReported ~> Terminal)

\* The remediation step has just run after a mismatch, on a state that named
\* the comparison gate as the failed step.
C16_Witness ==
    /\ hist.resuming
    /\ Len(hist.calls) > 1
    /\ hist.calls[Len(hist.calls) - 1] = COMPARISON
    /\ ~hist.payload[COMPARISON].passed
    /\ hist.failedAtStart = COMPARISON
    /\ state.confidence = 60

\* ---------------------------------------------------------------- C17
\* C17: messages only grows at its end: across every step its old value is a
\* prefix of its new value; a step changes it only if it is an invocation of
\* the remediation step, and each such invocation appends exactly one entry,
\* which names the step being resumed and the changes that invocation made
\* to tx; so messages holds one entry per remediation and the report hands
\* out the same sequence.
C17_MessagesAppendOnly ==
    /\ [][/\ IsPrefix(state.messages, state'.messages)
          /\ state'.messages # state.messages => InvokeRemediation
          /\ InvokeRemediation =>
                /\ Len(state'.messages) = Len(state.messages) + 1
                /\ Last(state'.messages).last_fail = current'
                /\ Last(state'.messages).changes = LastChanges(state')
                /\ \A k \in TxFields : state'.tx[k] # state.tx[k] =>
                      /\ k \in DOMAIN Last(state'.messages).changes
                      /\ Last(state'.messages).changes[k] = state'.tx[k]]_vars
    /\ [](Len(state.messages) = Count(hist.calls, HITL))
    /\ [](phase = "done" => report.agent_messages = state.messages)

\* The second remediation of a run has just appended its entry after the
\* first one's, which recorded changes.
C17_Witness ==
    /\ hist.resuming
    /\ Len(state.messages) = 2
    /\ DOMAIN state.messages[1].changes # {}
    /\ state.messages[2].last_fail = hist.resumeAt

\* ---------------------------------------------------------------- C18
\* C18: confidence (in hundredths) stays within [0, 1]; a step changes it
\* only if it is an invocation of 7_invoice_comparison, which sets it to the
\* score it computed; an invocation of the remediation step leaves it as it
\* was, so after a loop-back it still holds the last score; the report
\* carries the final value.
C18_ConfidenceSetOnlyByScoring ==
    /\ [](state.confidence \in 0..100)
    /\ [][/\ state'.confidence # state.confidence =>
                InvokeStep /\ current = COMPARISON
          /\ (InvokeStep /\ current = COMPARISON) =>
                state'.confidence = ComparisonPayload(state).confidence
          /\ InvokeRemediation => state'.confidence = state.confidence]_vars
    /\ [](hist.resuming =>
            state.confidence = IF Count(hist.calls, COMPARISON) = 0 THEN 0
                               ELSE hist.payload[COMPARISON].confidence)
    /\ [](phase = "done" => report.confidence = state.confidence)

\* The comparison gate has scored twice and remediation has looped back after
\* the second score, which is still in place.
C18_Witness ==
    /\ hist.resuming
    /\ Count(hist.calls, COMPARISON) >= 2
    /\ state.confidence = 60

\* ---------------------------------------------------------------- C19
\* C19: in every reachable state of a run, ctx in the run's state and the
\* ctx dict of the caller both equal the context supplied at the start; in
\* particular across an invocation of the remediation step, which reads
\* ctx.defaults, and of 7_invoice_comparison, which reads rate_table and
\* tolerance.
C19_ContextNeverMutated ==
    /\ [](state.ctx = hist.context)
    /\ [](caller.ctx = hist.context)
    /\ [][(InvokeRemediation \/ InvokeStep) =>
            state'.ctx = state.ctx /\ caller'.ctx = caller.ctx]_vars

\* Remediation has filled fields from a ctx.defaults the caller supplied and
\* the comparison gate has read the caller's rate_table and tolerance.
C19_Witness ==
    /\ hist.context["defaults"] # Absent
    /\ hist.context["rate_table"] # Absent
    /\ Count(hist.calls, HITL) >= 1
    /\ DOMAIN state.messages[1].changes # {}
    /\ Count(hist.calls, COMPARISON) >= 1
    /\ state.ctx = hist.context

\* ---------------------------------------------------------------- C21
\* C21: the run is at END only from the comparison gate on a pass: whenever
\* the next stop is END or the run has finished, the last entry of path is
\* 7_invoice_comparison, its entry in results has passed = true,
\* last_check_passed is true, confidence is 0.98, the last routing label was
\* "pass" at the comparison gate, and the report returned has passed = true
\* and confidence 0.98.
C21_DoneOnlyOnComparisonPass ==
    (current = END \/ phase = "done") =>
        /\ Len(state.path) > 0
        /\ Last(state.path) = COMPARISON
        /\ Last(hist.calls) = COMPARISON
        /\ HasKey(state.results, COMPARISON)
        /\ Lookup(state.results, COMPARISON).passed
        /\ state.last_check_passed = Bool(TRUE)
        /\ state.confidence = 98
        /\ hist.routed = COMPARISON
        /\ hist.lastLabel = "pass"
        /\ phase = "done" => report.passed /\ report.confidence = 98

\* A run that finished after the field gate had failed once and been
\* remediated.
C21_Witness ==
    /\ phase = "done"
    /\ current = END
    /\ report.passed
    /\ Count(hist.calls, HITL) = 1
    /\ Count(hist.calls, LEGAL) = 2

\* ---------------------------------------------------------------- C22
\* The steps downstream of the field-validation gate.
Downstream == StepIDs \ {"1_reporting_entity", "2_reporting_country", LEGAL, HITL}

\* C22: a step from 3_taxability_analysis through 7_invoice_comparison is
\* invoked only when legal_mandatory_fields has been invoked and its most
\* recent invocation recorded passed = true; and when an invocation of
\* legal_mandatory_fields records passed = false, its edge leads to the
\* remediation step and the next step invoked is the remediation step.
C22_GateOrdering ==
    /\ [][(InvokeStep /\ current \in Downstream) =>
            /\ Count(hist.calls, LEGAL) >= 1
            /\ hist.payload[LEGAL].passed
            /\ Lookup(state.results, LEGAL).passed
            /\ \A i \in 1..Len(required) : ~IsMissing(state.tx, required[i])]_vars
    /\ [][(InvokeStep /\ current = LEGAL /\ ~LegalPayload(state).passed) =>
            pass_fail(state').label = "fail"]_vars
    /\ [][(RoutePassFail /\ current = LEGAL /\ ~hist.payload[LEGAL].passed) =>
            current' = HITL]_vars
    /\ [][(Len(hist.calls) > 0 /\ hist'.calls # hist.calls
            /\ Last(hist.calls) = LEGAL /\ ~hist.payload[LEGAL].passed) =>
            Last(hist'.calls) = HITL]_vars

\* The first downstream step has just run after the gate failed, was
\* remediated and passed on its second evaluation.
C22_Witness ==
    /\ Len(hist.calls) > 0
    /\ Last(hist.calls) = "3_taxability_analysis"
    /\ Count(hist.calls, LEGAL) = 2
    /\ Count(hist.calls, HITL) = 1
    /\ hist.payload[LEGAL].passed

\* ---------------------------------------------------------------- C23
\* Country values a subject may carry in ship_to_country and
\* supplier_country: none, None, empty, two EU members, a non-member.
GeoValues == {Absent, NoneV, Str(""), Str("DE"), Str("FR"), Str("US")}

\* The region the claim names for a pair of countries; a country is present
\* when the subject holds a non-empty value for it.
ExpectedRegion(ship_to, supplier) ==
    LET present(v) == v.t = "str" /\ v.s # ""
        member(v) == v.t = "str" /\ v.s \in eu
    IN  CASE present(ship_to) /\ present(supplier) /\ ship_to = supplier
               -> "DOMESTIC"
          [] ship_to # supplier /\ member(ship_to) /\ member(supplier) -> "EU"
          [] OTHER -> "NON_EU"

RegionSteps ==
    {"5a_reverse_charge_verification", "5b_eu_intracommunity",
     "5c_non_eu_foreign"}

RegionStepOf(tx) ==
    LET r == ExpectedRegion(Get(tx, "ship_to_country"), Get(tx, "supplier_country"))
    IN  CASE r = "DOMESTIC" -> "5a_reverse_charge_verification"
          [] r = "EU" -> "5b_eu_intracommunity"
          [] OTHER -> "5c_non_eu_foreign"

\* C23: each invocation of 5_place_of_supply records the region the claim
\* names for the subject's two countries; the router then returns that
\* region, its edge leads to the step mapped to it, and that step is the one
\* invoked next; the step invoked after 5a, 5b or 5c is always
\* 6_recoverability_rate_block; the router's label is one of DOMESTIC, EU,
\* NON_EU in every state.
C23_PlaceOfSupplyRouting ==
    /\ \A a \in GeoValues, b \in GeoValues :
          Region([k \in TxFields |->
                    CASE k = "ship_to_country" -> a
                      [] k = "supplier_country" -> b
                      [] OTHER -> Absent]) = ExpectedRegion(a, b)
    /\ [](route_pos(state) \in {"DOMESTIC", "EU", "NON_EU"})
    /\ [][(InvokeStep /\ current = POS) =>
            LET r == ExpectedRegion(Get(state.tx, "ship_to_country"),
                                    Get(state.tx, "supplier_country"))
            IN  /\ state'.pos_region = Str(r)
                /\ Lookup(state'.results, POS).region = r
                /\ route_pos(state') = r]_vars
    /\ [][RoutePlaceOfSupply => current' = RegionStepOf(state.tx)]_vars
    /\ [][(Len(hist.calls) > 0 /\ hist'.calls # hist.calls) =>
            /\ Last(hist.calls) = POS => Last(hist'.calls) = RegionStepOf(state.tx)
            /\ Last(hist.calls) \in RegionSteps =>
                  Last(hist'.calls) = "6_recoverability_rate_block"
            /\ Last(hist'.calls) \in RegionSteps => Last(hist.calls) = POS]_vars

\* A run routed through the EU branch has gone on to step 6.
C23_Witness ==
    /\ Len(hist.calls) > 2
    /\ Last(hist.calls) = "6_recoverability_rate_block"
    /\ hist.calls[Len(hist.calls) - 1] = "5b_eu_intracommunity"
    /\ hist.calls[Len(hist.calls) - 2] = POS
    /\ state.pos_region = Str("EU")

\* ---------------------------------------------------------------- C24
\* The run of main.py's graph.  The two programs share nothing, so the order
\* of their steps does not matter to either; here main.py's graph runs once
\* the run of tax_graph.py's has ended, from the same subject and context
\* and on the same runtime.
MainWithinLimit == twin.invoked < MaxSteps

MainInvokeStep ==
    /\ Terminal
    /\ twin.phase = "node"
    /\ twin.current \in StepIDs \ {HITL}
    /\ MainWithinLimit
    /\ twin' = [twin EXCEPT !.state = MainNodeFn(twin.current, twin.state),
                            !.invoked = @ + 1,
                            !.phase = "edge",
                            !.calls = Append(@, twin.current)]
    /\ UNCHANGED <<state, current, phase, invoked, error, report,
                   routerWritesKept, caller, hist>>

MainInvokeRemediation ==
    /\ Terminal
    /\ twin.phase = "node"
    /\ twin.current = HITL
    /\ MainWithinLimit
    /\ LET cmd == main_node_failed_controls_and_validations(twin.state)
       IN  twin' = [twin EXCEPT !.state = cmd.update,
                                !.current = cmd.goto,
                                !.invoked = @ + 1,
                                !.calls = Append(@, HITL),
                                !.fixes = Append(@, cmd.update.tx)]
    /\ UNCHANGED <<state, current, phase, invoked, error, report,
                   routerWritesKept, caller, hist>>

MainFollowStaticEdge ==
    /\ Terminal
    /\ twin.phase = "edge"
    /\ twin.current \in DOMAIN StaticEdge
    /\ twin' = [twin EXCEPT !.current = StaticEdge[twin.current],
                            !.phase = "node"]
    /\ UNCHANGED <<state, current, phase, invoked, error, report,
                   routerWritesKept, caller, hist>>

MainRoutePassFail ==
    /\ Terminal
    /\ twin.phase = "edge"
    /\ twin.current \in DOMAIN PassTarget
    /\ LET r == pass_fail(twin.state)
       IN  twin' = [twin EXCEPT
                      !.current = PassFailMap(twin.current)[r.label],
                      !.state = IF routerWritesKept THEN r.state ELSE @,
                      !.phase = "node"]
    /\ UNCHANGED <<state, current, phase, invoked, error, report,
                   routerWritesKept, caller, hist>>

MainRoutePlaceOfSupply ==
    /\ Terminal
    /\ twin.phase = "edge"
    /\ twin.current = POS
    /\ twin' = [twin EXCEPT !.current = PosMap[route_pos(twin.state)],
                            !.phase = "node"]
    /\ UNCHANGED <<state, current, phase, invoked, error, report,
                   routerWritesKept, caller, hist>>

MainFinish ==
    /\ Terminal
    /\ twin.phase = "node"
    /\ twin.current = END
    /\ twin' = [twin EXCEPT !.phase = "done"]
    /\ UNCHANGED <<state, current, phase, invoked, error, report,
                   routerWritesKept, caller, hist>>

MainExceedLimit ==
    /\ Terminal
    /\ twin.phase = "node"
    /\ twin.current \in StepIDs
    /\ ~MainWithinLimit
    /\ twin' = [twin EXCEPT !.phase = "error", !.error = "CycleExceededError"]
    /\ UNCHANGED <<state, current, phase, invoked, error, report,
                   routerWritesKept, caller, hist>>

BothNext ==
    \/ Next
    \/ MainInvokeStep
    \/ MainInvokeRemediation
    \/ MainFollowStaticEdge
    \/ MainRoutePassFail
    \/ MainRoutePlaceOfSupply
    \/ MainFinish
    \/ MainExceedLimit

\* Both graphs started from a context that supplies defaults and rate_table.
BothInit ==
    /\ Init
    /\ state.ctx["defaults"] # Absent
    /\ state.ctx["rate_table"] # Absent

BothSpec == BothInit /\ [][BothNext]_vars

BothEnded == Terminal /\ twin.phase \in {"done", "error"}

\* C24: started from the same subject and context, with ctx.defaults and
\* rate_table supplied, the graph of main.py and the graph of tax_graph.py
\* invoke the same steps in the same order and record the same path, leave
\* tx with the same field values after each remediation, and reach END in
\* the same cases, for every modelled subject, those with a mandatory field
\* present but empty (None, 0) included.
C24_GraphsEquivalent ==
    BothEnded =>
        /\ twin.calls = hist.calls
        /\ twin.state.path = state.path
        /\ twin.fixes = hist.fixes
        /\ (twin.phase = "done") = (phase = "done")
====
